---- MODULE Spec2Model ----
(***************************************************************************)
(* Model of tranqap's capture/output engine.                               *)
(*                                                                         *)
(*   output.MultiOutput  (the FanOut)   : Write, AddExtMember, Close and   *)
(*                                        the eventHandler goroutine       *)
(*   capture.Storage     (the Registry) : Add, StopAll, Close,             *)
(*                                        AddNewOutput, Empty and the      *)
(*                                        eventHandler goroutine           *)
(*                                                                         *)
(* The Outputer implementations (file and wireshark sinks) and the         *)
(* Capturer implementation (tcpdump) are not part of the sources at hand;  *)
(* they are modelled from the design document (sections 4.C, 4.D, 4.F).    *)
(*                                                                         *)
(* Input bytes are stamped with their position in the input stream (the    *)
(* k-th byte written to the FanOut has value k), so that "the first 24     *)
(* bytes of the input" is the sequence 1..24 and a byte delivered twice    *)
(* shows up as a repeated value.  A byte that was never part of the input  *)
(* (the spare capacity of a caller's buffer) has the value StaleByte.      *)
(***************************************************************************)
EXTENDS Integers, Sequences, FiniteSets, TLC

VARIABLES
    \* ---- output.MultiOutput -------------------------------------------
    moMembers,          \* mo.members: sequence of sink ids
    moMembersMut,       \* mo.membersMut: "free" or the name of the holder
    moPcapHeader,       \* mo.pcapHeader: sequence of bytes
    moEvents,           \* mo.events: buffered channel, sequence of `from` ids
    moEventsClosed,     \* close(mo.events) has happened
    moWg,               \* mo.wg counter
    moHandlerFinished,  \* number of tokens in mo.handlerFinished
    moCrashed,          \* a goroutine of the process panicked
    \* goroutine positions
    wpc,                \* stdout reader inside Write: "idle" | "fwd" | "loop" | "call"
    wbuf,               \* the buffer p of the Write in progress
    wIdx,               \* Write: index of the member the range loop is at
    wFailed,            \* Write: members whose Write returned an error in this pass
    wRet,               \* what the last Write returned: << n, err >>
    hpc,                \* eventHandler: "recv" | "proc" | "done"
    hev,                \* the event the handler has received
    cpc,                \* caller of Close: "idle"|"wait"|"closeCh"|"waitFin"|"done"
    \* sinks (Outputers)
    sinkRecv,           \* sink id -> bytes handed to its Write, in order
    sinkClosed,         \* sink id -> Close was called on it
    sinkChild,          \* sink id -> "none" | "alive" | "reported"
    addRet,             \* result of the last AddExtMember: "none" | "nil" | "error"
    \* bookkeeping used to state the properties
    nWrites,            \* number of Write calls begun
    inputLen,           \* number of bytes handed to Write so far
    fwdLen,             \* number of input bytes whose forwarding pass is over
    regFwd,             \* sink id -> fwdLen when the sink was registered
    regHdr,             \* sink id -> header bytes written to it on registration
    regMidWrite,        \* sink id -> registered while a Write was in progress
    sawMidWrite,        \* sink id -> received the Write it was registered during
    \* ---- capture.Storage ----------------------------------------------
    stCapturers,        \* c.capturers: name -> capturer id, NoCapturer when no key
    stMut,              \* c.mut: "free" or "StopAll"
    stEvents,           \* c.events: buffered channel of CapturerEvent
    stEventsClosed,     \* close(c.events) has happened
    stWg,               \* c.wg counter
    stHandlerFinished,  \* number of tokens in c.handlerFinished
    stCrashed,          \* a goroutine of the process panicked
    shpc,               \* Storage.eventHandler: "recv" | "proc" | "done"
    shev,               \* the event the handler has received
    shLog,              \* the last tqlog call of the handler, and who held c.mut
    \* the command thread (the REPL calling into the Storage)
    rpc,                \* "idle", or where it is inside the command it runs
    inClose,            \* StopAll was entered from Close
    saTodo,             \* StopAll: names the range loop has not visited yet
    stopNoOps,          \* StopAll: Stop calls of this run that found nothing to do
    cur,                \* the capturer the command thread is working on
    nStarted,           \* number of capturers started so far
    \* the capturers
    capState,           \* capturer -> "Init" | "Running" | "Stopping" | "Terminal"
    wtpc,               \* capturer -> its waiter: "idle" | "close" | "done"
    capEvents,          \* capturer -> number of lifecycle events it has sent
    capFanOutClosed,    \* capturer -> its FanOut was closed
    \* the call in progress, until it returns
    addCall,            \* Add: the map and counter it found, and its result
    bcast,              \* AddNewOutput: the map it found, its targets, the feedback
                        \* lines it emitted and the AddOutputer calls it made
    \* bookkeeping used to state the properties
    addedLive,          \* names Added with no lifecycle event handled since
    \* ---- capture.StdErrHandler ----------------------------------------
    snPid,              \* the PID field: 0 not seen yet, -1 malformed, else the PID
    snLine,             \* the bytes of the line that is not complete yet
    snInput,            \* all the bytes handed to Write so far
    snWrites,           \* number of Write calls
    snGot,              \* the GetPid calls in order: the number of Writes before
                        \* the call, and its result
    \* ---- cmd/tranqap: the configuration and the start command ----------
    fsConf,             \* the file at the configuration path: a document, or Absent
    gsRet,              \* what the last generateSampleConfig returned
    gsPre,              \* the file the last generateSampleConfig found at the path
    gsCalls,            \* number of generateSampleConfig calls
    cfgDoc,             \* the configuration document handed to parseConfig
    cfgpc,              \* "read" | "parse" | "error" | "panic" | "loaded" | "loop"
    cfgErr,             \* the error parseConfig returned, "nil" when none
    cfgIdx,             \* cmdStart: index of the target the range loop is at
    cfgOut,             \* how the last cmdStart ended: "none" | "refused" |
                        \* "failed" | "done"
    cfgFailedAt,        \* cmdStart: index of the target it gave up at, 0 when none
    cfgEntryEmpty       \* cmdStart: Empty() was true when it was called

moVars == << moMembers, moMembersMut, moPcapHeader, moEvents, moEventsClosed,
             moWg, moHandlerFinished, moCrashed, wpc, wbuf, hpc, hev, cpc,
             sinkRecv, sinkClosed, sinkChild, addRet, nWrites, inputLen, fwdLen,
             regFwd, regHdr, regMidWrite, sawMidWrite, wIdx, wFailed, wRet >>

\* the range loop of Write and its result
wLoopVars == << wIdx, wFailed, wRet >>

stVars == << stCapturers, stMut, stEvents, stEventsClosed, stWg, stHandlerFinished,
             stCrashed, shpc, shev, shLog, rpc, inClose, saTodo, stopNoOps, cur, nStarted,
             capState, wtpc, capEvents, capFanOutClosed, addCall, bcast, addedLive >>

snVars == << snPid, snLine, snInput, snWrites, snGot >>

gsVars == << fsConf, gsRet, gsPre, gsCalls >>

cfgVars == << gsVars, cfgDoc, cfgpc, cfgErr, cfgIdx, cfgOut, cfgFailedAt,
              cfgEntryEmpty >>

nonMoVars == << stVars, snVars, cfgVars >>
nonStVars == << moVars, snVars, cfgVars >>
nonSnVars == << moVars, stVars, cfgVars >>

vars == << moVars, stVars, snVars, cfgVars >>

-----------------------------------------------------------------------------
(* Program constants *)

pcapHeaderSize == 24

\* capacity of the channel made by make(MOEventChan, 1)
MOEventChanCap == 1

(* Bounds of the model *)

\* number of Write calls
MaxWrites == 2

\* number of sinks the factory can create
MaxExt == 2

\* value of a byte that was never part of the input
StaleByte == 0

\* lengths of the buffers handed to Write
BufLens == {10, pcapHeaderSize, 30}

\* spare capacity (cap(p) - len(p)) of the buffers handed to Write
SpareLens == {0, pcapHeaderSize}

FileSink == 0
ExtSinks == 1..MaxExt
Sinks    == {FileSink} \cup ExtSinks

-----------------------------------------------------------------------------
(* Helpers *)

\* the input bytes at positions a+1 .. b
Stamps(a, b) == [i \in 1..(b - a) |-> a + i]

\* n bytes that were never part of the input
Stale(n) == [i \in 1..n |-> StaleByte]

\* append(s[:i], s[i+1:]...) for the 1-based index i
RemoveAt(s, i) == SubSeq(s, 1, i - 1) \o SubSeq(s, i + 1, Len(s))

\* index of the first element of s equal to x, 0 when there is none
FirstIndex(s, x) ==
    IF \E i \in 1..Len(s) : s[i] = x
    THEN CHOOSE i \in 1..Len(s) : s[i] = x /\ \A j \in 1..(i - 1) : s[j] # x
    ELSE 0

Range(s) == {s[i] : i \in 1..Len(s)}

-----------------------------------------------------------------------------
(* output.NewMultiOutput(outputers...): the file sink or no sink at all,   *)
(* empty header, handler started                                           *)

MOInit ==
    /\ moMembers \in {<< >>, << FileSink >>}
    /\ moMembersMut = "free"
    /\ moPcapHeader = << >>
    /\ moEvents = << >>
    /\ moEventsClosed = FALSE
    /\ moWg = 0
    /\ moHandlerFinished = 0
    /\ moCrashed = FALSE
    /\ wpc = "idle"
    /\ wbuf = [data |-> << >>, spare |-> << >>]
    /\ wIdx = 0
    /\ wFailed = {}
    /\ wRet = << >>
    /\ hpc = "recv"
    /\ hev = FileSink
    /\ cpc = "idle"
    /\ sinkRecv = [s \in Sinks |-> << >>]
    /\ sinkClosed = [s \in Sinks |-> FALSE]
    /\ sinkChild = [s \in Sinks |-> "none"]
    /\ addRet = "none"
    /\ nWrites = 0
    /\ inputLen = 0
    /\ fwdLen = 0
    /\ regFwd = [s \in Sinks |-> 0]
    /\ regHdr = [s \in Sinks |-> << >>]
    /\ regMidWrite = [s \in Sinks |-> FALSE]
    /\ sawMidWrite = [s \in Sinks |-> FALSE]

-----------------------------------------------------------------------------
(* MultiOutput.Write, lines 92-95: save the header.  Runs without the      *)
(* membership lock.  p[0:pcapHeaderSize-currHdrLen] is taken from the      *)
(* backing array of p: it panics when the bound exceeds cap(p), and        *)
(* reaches into the spare capacity when it exceeds len(p).                 *)

SaveHeader(hdr, p) ==
    IF Len(hdr) < pcapHeaderSize
    THEN hdr \o SubSeq(p.data \o p.spare, 1, pcapHeaderSize - Len(hdr))
    ELSE hdr

SaveHeaderPanics(hdr, p) ==
    /\ Len(hdr) < pcapHeaderSize
    /\ pcapHeaderSize - Len(hdr) > Len(p.data) + Len(p.spare)

WriteSaveHeader ==
    /\ ~moCrashed
    /\ wpc = "idle"
    /\ nWrites < MaxWrites
    /\ \E n \in BufLens, k \in SpareLens :
         LET p == [data |-> Stamps(inputLen, inputLen + n), spare |-> Stale(k)]
         IN  /\ nWrites' = nWrites + 1
             /\ inputLen' = inputLen + n
             /\ wbuf' = p
             /\ IF SaveHeaderPanics(moPcapHeader, p)
                THEN /\ moCrashed' = TRUE
                     /\ UNCHANGED << moPcapHeader, wpc >>
                ELSE /\ moPcapHeader' = SaveHeader(moPcapHeader, p)
                     /\ wpc' = "fwd"
                     /\ UNCHANGED moCrashed
    /\ UNCHANGED << nonMoVars, wLoopVars, addRet, moMembers, moMembersMut, moEvents, moEventsClosed, moWg,
                    moHandlerFinished, hpc, hev, cpc, sinkRecv, sinkClosed,
                    sinkChild, fwdLen, regFwd, regHdr, regMidWrite, sawMidWrite >>

(* MultiOutput.Write, lines 98-104: under the lock, o.Write(p) for every   *)
(* member in order; return len(p), nil.  o.Write is a call into the sink:  *)
(* the sink has the buffer from the call on, and returns nil or an error,  *)
(* which Write ignores.                                                    *)

\* o.Write(p): the bytes handed to the sink o
Forward(recv, o, p) == [recv EXCEPT ![o] = @ \o p]

\* line 98: mo.membersMut.Lock()
WriteLock ==
    /\ ~moCrashed
    /\ wpc = "fwd"
    /\ moMembersMut = "free"
    /\ moMembersMut' = "Write"
    /\ wIdx' = 1
    /\ wFailed' = {}
    /\ wpc' = "loop"
    /\ UNCHANGED << nonMoVars, addRet, moMembers, moPcapHeader, moEvents, moEventsClosed,
                    moWg, moHandlerFinished, moCrashed, wbuf, hpc, hev, cpc, sinkRecv,
                    sinkClosed, sinkChild, nWrites, inputLen, fwdLen, regFwd, regHdr,
                    regMidWrite, sawMidWrite, wRet >>

\* lines 99-100: the loop reaches the next member and calls its Write
WriteMemberCall ==
    /\ ~moCrashed
    /\ wpc = "loop"
    /\ wIdx <= Len(moMembers)
    /\ LET o == moMembers[wIdx]
       IN  /\ sinkRecv' = Forward(sinkRecv, o, wbuf.data)
           /\ sawMidWrite' = [sawMidWrite EXCEPT ![o] = @ \/ regMidWrite[o]]
    /\ wpc' = "call"
    /\ UNCHANGED << nonMoVars, addRet, moMembers, moMembersMut, moPcapHeader, moEvents,
                    moEventsClosed, moWg, moHandlerFinished, moCrashed, wbuf, hpc,
                    hev, cpc, sinkClosed, sinkChild, nWrites, inputLen, fwdLen,
                    regFwd, regHdr, regMidWrite, wLoopVars >>

\* line 100: the member's Write returns; its result is dropped
WriteMemberReturn ==
    /\ ~moCrashed
    /\ wpc = "call"
    /\ \E err \in {"nil", "error"} :
         wFailed' = IF err = "error" THEN wFailed \cup {moMembers[wIdx]} ELSE wFailed
    /\ wIdx' = wIdx + 1
    /\ wpc' = "loop"
    /\ UNCHANGED << nonMoVars, addRet, moMembers, moMembersMut, moPcapHeader, moEvents,
                    moEventsClosed, moWg, moHandlerFinished, moCrashed, wbuf, hpc,
                    hev, cpc, sinkRecv, sinkClosed, sinkChild, nWrites, inputLen,
                    fwdLen, regFwd, regHdr, regMidWrite, sawMidWrite, wRet >>

\* lines 102-104: mo.membersMut.Unlock(); return len(p), nil
WriteReturn ==
    /\ ~moCrashed
    /\ wpc = "loop"
    /\ wIdx > Len(moMembers)
    /\ moMembersMut' = "free"
    /\ wRet' = << Len(wbuf.data), "nil" >>
    /\ wIdx' = 0
    /\ wFailed' = {}
    /\ regMidWrite' = [s \in Sinks |-> FALSE]
    /\ fwdLen' = inputLen
    /\ wpc' = "idle"
    /\ UNCHANGED << nonMoVars, addRet, moMembers, moPcapHeader, moEvents, moEventsClosed,
                    moWg, moHandlerFinished, moCrashed, wbuf, hpc, hev, cpc, sinkRecv,
                    sinkClosed, sinkChild, nWrites, inputLen, regFwd, regHdr,
                    sawMidWrite >>

-----------------------------------------------------------------------------
(* MultiOutput.AddExtMember, lines 127-145, all under the lock.  The       *)
(* factory yields the next unused sink, or nil.                            *)

NextSink ==
    IF \E s \in ExtSinks : sinkChild[s] = "none"
    THEN CHOOSE s \in ExtSinks :
            sinkChild[s] = "none" /\ \A t \in ExtSinks : t < s => sinkChild[t] # "none"
    ELSE FileSink

\* a faulty registration, which puts the new member first
AddMemberFirst(members, s) == << s >> \o members

\* line 143: mo.members = append(mo.members, newMember)
AddMember(members, s) == Append(members, s)

AddExtMemberOk ==
    /\ ~moCrashed
    /\ moMembersMut = "free"
    /\ NextSink # FileSink
    /\ LET s == NextSink
       IN  /\ sinkChild' = [sinkChild EXCEPT ![s] = "alive"]
           /\ moWg' = moWg + 1
           /\ sinkRecv' = [sinkRecv EXCEPT ![s] = @ \o moPcapHeader]
           /\ moMembers' = AddMember(moMembers, s)
           /\ regFwd' = [regFwd EXCEPT ![s] = fwdLen]
           /\ regHdr' = [regHdr EXCEPT ![s] = moPcapHeader]
           /\ regMidWrite' = [regMidWrite EXCEPT ![s] = (wpc = "fwd")]
    /\ addRet' = "nil"
    /\ UNCHANGED << nonMoVars, wLoopVars, moMembersMut, moPcapHeader, moEvents, moEventsClosed,
                    moHandlerFinished, moCrashed, wpc, wbuf, hpc, hev, cpc,
                    sinkClosed, nWrites, inputLen, fwdLen, sawMidWrite >>

\* newMember == nil: return the error, nothing else changes
AddExtMemberNil ==
    /\ ~moCrashed
    /\ moMembersMut = "free"
    /\ addRet' = "error"
    /\ UNCHANGED << nonMoVars, wLoopVars, moMembers, moMembersMut, moPcapHeader, moEvents, moEventsClosed,
                    moWg, moHandlerFinished, moCrashed, wpc, wbuf, hpc, hev, cpc,
                    sinkRecv, sinkClosed, sinkChild, nWrites, inputLen, fwdLen,
                    regFwd, regHdr, regMidWrite, sawMidWrite >>

-----------------------------------------------------------------------------
(* Sinks.  A viewer sink's watcher sends OutputerDead{self} on the FanOut  *)
(* event channel once, when its child exits: the user closed the viewer,   *)
(* or the sink was closed.  The send blocks while the channel is full and  *)
(* panics when the channel is closed.                                      *)

OutputerDies(s) ==
    /\ ~moCrashed
    /\ sinkChild[s] = "alive"
    /\ IF moEventsClosed
       THEN /\ moCrashed' = TRUE
            /\ UNCHANGED << moEvents, sinkChild >>
       ELSE /\ Len(moEvents) < MOEventChanCap
            /\ moEvents' = Append(moEvents, s)
            /\ sinkChild' = [sinkChild EXCEPT ![s] = "reported"]
            /\ UNCHANGED moCrashed
    /\ UNCHANGED << nonMoVars, wLoopVars, addRet, moMembers, moMembersMut, moPcapHeader, moEventsClosed, moWg,
                    moHandlerFinished, wpc, wbuf, hpc, hev, cpc, sinkRecv,
                    sinkClosed, nWrites, inputLen, fwdLen, regFwd, regHdr,
                    regMidWrite, sawMidWrite >>

-----------------------------------------------------------------------------
(* MultiOutput.eventHandler, lines 150-167 *)

\* for event := range mo.events
HandlerReceive ==
    /\ ~moCrashed
    /\ hpc = "recv"
    /\ moEvents # << >>
    /\ hev' = Head(moEvents)
    /\ moEvents' = Tail(moEvents)
    /\ hpc' = "proc"
    /\ UNCHANGED << nonMoVars, wLoopVars, addRet, moMembers, moMembersMut, moPcapHeader, moEventsClosed, moWg,
                    moHandlerFinished, moCrashed, wpc, wbuf, cpc, sinkRecv,
                    sinkClosed, sinkChild, nWrites, inputLen, fwdLen, regFwd,
                    regHdr, regMidWrite, sawMidWrite >>

\* a faulty handler, which never lowers the counter
DoneNothing(wg) == wg

\* line 160: mo.wg.Done()
Done(wg) == wg - 1

\* a faulty scan, which drops the members behind the match as well
RemoveMemberTruncate(members, from) ==
    IF FirstIndex(members, from) = 0
    THEN members
    ELSE SubSeq(members, 1, FirstIndex(members, from) - 1)

\* the members left after the scan of lines 156-163 for event.from
RemoveMember(members, from) ==
    IF FirstIndex(members, from) = 0
    THEN members
    ELSE RemoveAt(members, FirstIndex(members, from))

\* lines 154-165: lock, remove the first match and wg.Done(), unlock
HandlerProcess ==
    /\ ~moCrashed
    /\ hpc = "proc"
    /\ moMembersMut = "free"
    /\ moMembers' = RemoveMember(moMembers, hev)
    /\ IF FirstIndex(moMembers, hev) # 0
       THEN /\ moWg' = Done(moWg)
            /\ moCrashed' = (Done(moWg) < 0)
       ELSE UNCHANGED << moWg, moCrashed >>
    /\ hpc' = "recv"
    /\ UNCHANGED << nonMoVars, wLoopVars, addRet, moMembersMut, moPcapHeader, moEvents, moEventsClosed,
                    moHandlerFinished, wpc, wbuf, hev, cpc, sinkRecv, sinkClosed,
                    sinkChild, nWrites, inputLen, fwdLen, regFwd, regHdr,
                    regMidWrite, sawMidWrite >>

\* a faulty handler, which leaves without the deferred send
HandlerExitSilent ==
    /\ ~moCrashed
    /\ hpc = "recv"
    /\ moEvents = << >>
    /\ moEventsClosed
    /\ hpc' = "done"
    /\ UNCHANGED << nonMoVars, wLoopVars, addRet, moMembers, moMembersMut, moPcapHeader,
                    moEvents, moEventsClosed, moWg, moHandlerFinished, moCrashed, wpc,
                    wbuf, hev, cpc, sinkRecv, sinkClosed, sinkChild, nWrites, inputLen,
                    fwdLen, regFwd, regHdr, regMidWrite, sawMidWrite >>

\* the range loop ends on the closed, drained channel; the deferred send runs
HandlerExit ==
    /\ ~moCrashed
    /\ hpc = "recv"
    /\ moEvents = << >>
    /\ moEventsClosed
    /\ moHandlerFinished' = moHandlerFinished + 1
    /\ hpc' = "done"
    /\ UNCHANGED << nonMoVars, wLoopVars, addRet, moMembers, moMembersMut, moPcapHeader, moEvents, moEventsClosed,
                    moWg, moCrashed, wpc, wbuf, hev, cpc, sinkRecv, sinkClosed,
                    sinkChild, nWrites, inputLen, fwdLen, regFwd, regHdr,
                    regMidWrite, sawMidWrite >>

-----------------------------------------------------------------------------
(* MultiOutput.Close, lines 108-117.  The lock taken on line 109 is        *)
(* released by the deferred Unlock, when Close returns.                    *)

\* lines 109-113: Lock, o.Close() for every member
CloseSinks ==
    /\ ~moCrashed
    /\ cpc = "idle"
    /\ moMembersMut = "free"
    /\ moMembersMut' = "Close"
    /\ sinkClosed' = [s \in Sinks |-> sinkClosed[s] \/ s \in Range(moMembers)]
    /\ cpc' = "wait"
    /\ UNCHANGED << nonMoVars, wLoopVars, addRet, moMembers, moPcapHeader, moEvents, moEventsClosed, moWg,
                    moHandlerFinished, moCrashed, wpc, wbuf, hpc, hev, sinkRecv,
                    sinkChild, nWrites, inputLen, fwdLen, regFwd, regHdr,
                    regMidWrite, sawMidWrite >>

\* line 114: mo.wg.Wait()
CloseWait ==
    /\ ~moCrashed
    /\ cpc = "wait"
    /\ moWg = 0
    /\ cpc' = "closeCh"
    /\ UNCHANGED << nonMoVars, wLoopVars, addRet, moMembers, moMembersMut, moPcapHeader, moEvents, moEventsClosed,
                    moWg, moHandlerFinished, moCrashed, wpc, wbuf, hpc, hev,
                    sinkRecv, sinkClosed, sinkChild, nWrites, inputLen, fwdLen,
                    regFwd, regHdr, regMidWrite, sawMidWrite >>

\* line 115: close(mo.events)
CloseChannel ==
    /\ ~moCrashed
    /\ cpc = "closeCh"
    /\ IF moEventsClosed
       THEN /\ moCrashed' = TRUE
            /\ UNCHANGED << moEventsClosed, cpc >>
       ELSE /\ moEventsClosed' = TRUE
            /\ cpc' = "waitFin"
            /\ UNCHANGED moCrashed
    /\ UNCHANGED << nonMoVars, wLoopVars, addRet, moMembers, moMembersMut, moPcapHeader, moEvents, moWg,
                    moHandlerFinished, wpc, wbuf, hpc, hev, sinkRecv, sinkClosed,
                    sinkChild, nWrites, inputLen, fwdLen, regFwd, regHdr,
                    regMidWrite, sawMidWrite >>

\* line 116 and the deferred Unlock: <-mo.handlerFinished, return
CloseReturn ==
    /\ ~moCrashed
    /\ cpc = "waitFin"
    /\ moHandlerFinished > 0
    /\ moHandlerFinished' = moHandlerFinished - 1
    /\ moMembersMut' = "free"
    /\ cpc' = "done"
    /\ UNCHANGED << nonMoVars, wLoopVars, addRet, moMembers, moPcapHeader, moEvents, moEventsClosed, moWg,
                    moCrashed, wpc, wbuf, hpc, hev, sinkRecv, sinkClosed,
                    sinkChild, nWrites, inputLen, fwdLen, regFwd, regHdr,
                    regMidWrite, sawMidWrite >>

-----------------------------------------------------------------------------
(* An OutputerDead event whose sender is not a member: a sink this FanOut  *)
(* never held, or a sink that has reported already.  Any holder of the     *)
(* event channel can send one.                                             *)

StrayEvent(s) ==
    /\ ~moCrashed
    /\ ~moEventsClosed
    /\ \/ s = FileSink /\ s \notin Range(moMembers)
       \/ s \in ExtSinks /\ sinkChild[s] = "reported"
    /\ Len(moEvents) < MOEventChanCap
    /\ moEvents' = Append(moEvents, s)
    /\ UNCHANGED << nonMoVars, wLoopVars, addRet, moMembers, moMembersMut, moPcapHeader,
                    moEventsClosed, moWg, moHandlerFinished, moCrashed, wpc, wbuf, hpc,
                    hev, cpc, sinkRecv, sinkClosed, sinkChild, nWrites, inputLen,
                    fwdLen, regFwd, regHdr, regMidWrite, sawMidWrite >>

\* the event loop with its senders and AddExtMember
ELNext ==
    \/ AddExtMemberOk
    \/ AddExtMemberNil
    \/ \E s \in ExtSinks : OutputerDies(s)
    \/ \E s \in Sinks : StrayEvent(s)
    \/ HandlerReceive
    \/ HandlerProcess

-----------------------------------------------------------------------------

MONext ==
    \/ WriteSaveHeader
    \/ WriteLock
    \/ WriteMemberCall
    \/ WriteMemberReturn
    \/ WriteReturn
    \/ AddExtMemberOk
    \/ AddExtMemberNil
    \/ \E s \in ExtSinks : OutputerDies(s)
    \/ HandlerReceive
    \/ HandlerProcess
    \/ HandlerExit
    \/ CloseSinks
    \/ CloseWait
    \/ CloseChannel
    \/ CloseReturn

\* Every goroutine that can take a step eventually takes it; the caller of
\* Write, AddExtMember and Close is free to stop calling.
MOFairness ==
    /\ WF_vars(WriteLock)
    /\ WF_vars(WriteMemberCall)
    /\ WF_vars(WriteMemberReturn)
    /\ WF_vars(WriteReturn)
    /\ WF_vars(HandlerReceive)
    /\ WF_vars(HandlerProcess)
    /\ WF_vars(HandlerExit)
    /\ WF_vars(CloseWait)
    /\ WF_vars(CloseChannel)
    /\ WF_vars(CloseReturn)
    /\ \A s \in ExtSinks : WF_vars(OutputerDies(s))

-----------------------------------------------------------------------------
(* capture.Storage and the capturers it holds.                             *)
(*                                                                         *)
(* The command thread starts capturers one after the other and hands each  *)
(* to Add (cmdStart), calls StopAll (cmdStop), AddNewOutput (cmdWireshark) *)
(* and Close (exit).  The started capturers have distinct names, as        *)
(* checkForDuplicates guarantees.  For every name there is one more        *)
(* Capturer object carrying it, which is handed to Add while the name is   *)
(* registered (scenario S5).                                               *)

\* capacity of the channel made by make(CapturerEventChan, 1)
STEventChanCap == 1

\* the event kinds
CapturerDead == 0
CapturerStopped == 1

\* number of capturers the command thread starts
MaxCapturers == 3

NoCapturer == 0
Capturers == 1..MaxCapturers
Names == 1..MaxCapturers

\* the second Capturer object with the name n
DuplicateOf(n) == MaxCapturers + n

\* Capturer.Name()
NameOf(c) == IF c \in Capturers THEN c ELSE c - MaxCapturers

\* the targets arguments of AddNewOutput
TargetNames == {1, 2}
TargetLists == UNION {[1..n -> TargetNames] : n \in 0..2}

\* the keys of the map
Keys(capturers) == {n \in Names : capturers[n] # NoCapturer}

\* the feedback lines
NoRunningCapturers == << "There are no running capturers. Use start first." >>
TargetDoesNotExist(t) == << "Target doesn't exist.", t >>

NoEvent == [from |-> NoCapturer, event |-> CapturerDead]
NoCall == [newCapt |-> NoCapturer, pre |-> << >>, ret |-> "none"]
NoBroadcast == [pre |-> << >>, targets |-> << >>, feedback |-> << >>, outputs |-> << >>,
                failing |-> {}, added |-> << >>, errors |-> {}]

\* line 120, line 128: the line AddNewOutput logs when capt.AddOutputer fails
ErrorAddingOutputer(name) == << "Error adding Outputer to capturer", name >>

\* the handler has made no tqlog call yet
NoLog == [line |-> 0, mut |-> "free"]

\* a tqlog call of the handler: its line, and the holder of c.mut at the call
LogCall(line, holder) == [line |-> line, mut |-> holder]

hVars == << shpc, shev, shLog >>
chanVars == << stEvents, stEventsClosed, stHandlerFinished >>
captVars == << capState, wtpc, capEvents, capFanOutClosed >>

(* capture.NewStorage: empty map, handler started *)
STInit ==
    /\ stCapturers = [n \in Names |-> NoCapturer]
    /\ stMut = "free"
    /\ stEvents = << >>
    /\ stEventsClosed = FALSE
    /\ stWg = 0
    /\ stHandlerFinished = 0
    /\ stCrashed = FALSE
    /\ shpc = "recv"
    /\ shev = NoEvent
    /\ shLog = NoLog
    /\ rpc = "idle"
    /\ inClose = FALSE
    /\ saTodo = {}
    /\ stopNoOps = 0
    /\ cur = NoCapturer
    /\ nStarted = 0
    /\ capState = [c \in Capturers |-> "Init"]
    /\ wtpc = [c \in Capturers |-> "idle"]
    /\ capEvents = [c \in Capturers |-> 0]
    /\ capFanOutClosed = [c \in Capturers |-> FALSE]
    /\ addCall = NoCall
    /\ bcast = NoBroadcast
    /\ addedLive = {}

-----------------------------------------------------------------------------
(* The command thread: cmdStart's loop body, capt.Start() then             *)
(* capturers.Add(capt).                                                    *)

\* capt.Start() succeeds: Init -> Running, the waiter is launched
CapturerStart ==
    /\ ~stCrashed
    /\ rpc = "idle"
    /\ nStarted < MaxCapturers
    /\ nStarted' = nStarted + 1
    /\ cur' = nStarted + 1
    /\ capState' = [capState EXCEPT ![nStarted + 1] = "Running"]
    /\ rpc' = "add"
    /\ UNCHANGED << nonStVars, stopNoOps, stCapturers, stMut, chanVars, stWg, stCrashed, hVars,
                    inClose, saTodo, wtpc, capEvents, capFanOutClosed, addCall,
                    bcast, addedLive >>

\* line 54: c.capturers[newCapt.Name()] = newCapt
StorageInsert(capturers, newCapt) ==
    [capturers EXCEPT ![NameOf(newCapt)] = newCapt]

\* a faulty Add, which overwrites the entry of a registered name
AddResultOverwrite(capturers, wg, newCapt) ==
    [capturers |-> StorageInsert(capturers, newCapt), wg |-> wg + 1, ret |-> "nil"]

\* lines 49-57: the map and the counter Add leaves, and what it returns
AddResult(capturers, wg, newCapt) ==
    IF capturers[NameOf(newCapt)] # NoCapturer
    THEN [capturers |-> capturers, wg |-> wg, ret |-> "error"]
    ELSE [capturers |-> StorageInsert(capturers, newCapt), wg |-> wg + 1, ret |-> "nil"]

\* Storage.Add(newCapt), lines 45-57, under the lock
Add(newCapt) ==
    /\ ~stCrashed
    /\ stMut = "free"
    /\ stMut' = "Add"
    /\ LET r == AddResult(stCapturers, stWg, newCapt)
       IN  /\ stCapturers' = r.capturers
           /\ stWg' = r.wg
           /\ addCall' = [newCapt |-> newCapt, pre |-> << stCapturers, stWg >>,
                          ret |-> r.ret]
           /\ addedLive' = IF r.ret = "nil"
                           THEN addedLive \cup {NameOf(newCapt)}
                           ELSE addedLive
    /\ rpc' = "addRet"
    /\ UNCHANGED << nonStVars, stopNoOps, chanVars, stCrashed, hVars, inClose, saTodo, cur,
                    nStarted, captVars, bcast >>

\* cmdStart, line 89: capturers.Add(capt) with the capturer just started
AddStarted ==
    /\ rpc = "add"
    /\ Add(cur)

\* a caller adds the second Capturer object of a registered name
AddDuplicate ==
    /\ rpc = "idle"
    /\ \E n \in Keys(stCapturers) : Add(DuplicateOf(n))

\* the deferred Unlock of line 47: Add returns
AddReturn ==
    /\ ~stCrashed
    /\ rpc = "addRet"
    /\ stMut' = "free"
    /\ addCall' = NoCall
    /\ cur' = NoCapturer
    /\ rpc' = "idle"
    /\ UNCHANGED << nonStVars, stopNoOps, stCapturers, chanVars, stWg, stCrashed, hVars, inClose,
                    saTodo, nStarted, captVars, bcast, addedLive >>

\* line 145: len(c.capturers) == 0
Empty(capturers) == Keys(capturers) = {}

-----------------------------------------------------------------------------
(* The capturer's waiter, design section 4.F: on an unexpected remote exit *)
(* (Stop was not called) emit CapturerDead{name}; close the FanOut;        *)
(* transition to Terminal.  A send on the Storage channel blocks while the *)
(* channel is full and panics when it is closed; closing a FanOut a second *)
(* time panics in close(mo.events).                                        *)

WaiterEmitDead(c) ==
    /\ ~stCrashed
    /\ capState[c] = "Running"
    /\ wtpc[c] = "idle"
    /\ IF stEventsClosed
       THEN /\ stCrashed' = TRUE
            /\ UNCHANGED << stEvents, wtpc, capEvents >>
       ELSE /\ Len(stEvents) < STEventChanCap
            /\ stEvents' = Append(stEvents, [from |-> NameOf(c), event |-> CapturerDead])
            /\ wtpc' = [wtpc EXCEPT ![c] = "close"]
            /\ capEvents' = [capEvents EXCEPT ![c] = @ + 1]
            /\ UNCHANGED stCrashed
    /\ UNCHANGED << nonStVars, stopNoOps, stCapturers, stMut, stEventsClosed, stHandlerFinished,
                    stWg, hVars, rpc, inClose, saTodo, cur, nStarted, capState,
                    capFanOutClosed, addCall, bcast, addedLive >>

WaiterCloseFanOut(c) ==
    /\ ~stCrashed
    /\ wtpc[c] = "close"
    /\ IF capFanOutClosed[c]
       THEN /\ stCrashed' = TRUE
            /\ UNCHANGED << capFanOutClosed, capState, wtpc >>
       ELSE /\ capFanOutClosed' = [capFanOutClosed EXCEPT ![c] = TRUE]
            /\ capState' = [capState EXCEPT ![c] = "Terminal"]
            /\ wtpc' = [wtpc EXCEPT ![c] = "done"]
            /\ UNCHANGED stCrashed
    /\ UNCHANGED << nonStVars, stopNoOps, stCapturers, stMut, chanVars, stWg, hVars, rpc, inClose,
                    saTodo, cur, nStarted, capEvents, addCall, bcast, addedLive >>

-----------------------------------------------------------------------------
(* cmdStop, Storage.StopAll (lines 61-80) and Storage.Close (lines 83-93). *)
(* Capturer.Stop, design section 4.F: a no-op when the capturer is         *)
(* Stopping or Terminal; otherwise transition to Stopping, terminate the   *)
(* remote command, close the FanOut, emit CapturerStopped{name}.           *)

\* cmdStop: "There are no running captures." unless Empty() is false
CmdStop ==
    /\ ~stCrashed
    /\ rpc = "idle"
    /\ stMut = "free"
    /\ ~Empty(stCapturers)
    /\ rpc' = "stopCmd"
    /\ inClose' = FALSE
    /\ UNCHANGED << nonStVars, stopNoOps, stCapturers, stMut, chanVars, stWg, stCrashed, hVars,
                    saTodo, cur, nStarted, captVars, addCall, bcast, addedLive >>

\* exit: Storage.Close, line 85
CmdExit ==
    /\ ~stCrashed
    /\ rpc = "idle"
    /\ rpc' = "stopCmd"
    /\ inClose' = TRUE
    /\ UNCHANGED << nonStVars, stopNoOps, stCapturers, stMut, chanVars, stWg, stCrashed, hVars,
                    saTodo, cur, nStarted, captVars, addCall, bcast, addedLive >>

\* a faulty Stop, which is a no-op only while another Stop is at work
StopIsNoOpWhileStopping(state) == state = "Stopping"

\* Stop, step 1: a call on a capturer that was stopped already is a no-op
StopIsNoOp(state) == state \in {"Stopping", "Terminal"}

\* line 70: c.mut.Lock(); the range loop is over the entries of the map
StopAllLock ==
    /\ ~stCrashed
    /\ rpc = "stopCmd"
    /\ stMut = "free"
    /\ stMut' = "StopAll"
    /\ saTodo' = Keys(stCapturers)
    /\ stopNoOps' = 0
    /\ rpc' = "stopAll"
    /\ UNCHANGED << nonStVars, stCapturers, chanVars, stWg, stCrashed, hVars, inClose,
                    cur, nStarted, captVars, addCall, bcast, addedLive >>

\* lines 71-72: the range loop reaches an entry and calls its Stop()
StopAllNext ==
    /\ ~stCrashed
    /\ rpc = "stopAll"
    /\ \E n \in saTodo :
         LET c == stCapturers[n]
         IN  /\ saTodo' = saTodo \ {n}
             /\ IF StopIsNoOp(capState[c])
                THEN /\ stopNoOps' = stopNoOps + 1
                     /\ UNCHANGED << capState, capFanOutClosed, cur, rpc, stCrashed >>
                ELSE IF capFanOutClosed[c]
                THEN /\ stCrashed' = TRUE
                     /\ UNCHANGED << capState, capFanOutClosed, cur, rpc, stopNoOps >>
                ELSE /\ capState' = [capState EXCEPT ![c] = "Stopping"]
                     /\ capFanOutClosed' = [capFanOutClosed EXCEPT ![c] = TRUE]
                     /\ cur' = c
                     /\ rpc' = "stopEmit"
                     /\ UNCHANGED << stCrashed, stopNoOps >>
    /\ UNCHANGED << nonStVars, stCapturers, stMut, chanVars, stWg, hVars, inClose,
                    nStarted, wtpc, capEvents, addCall, bcast, addedLive >>

\* Stop, step 4: emit CapturerStopped{name}, transition to Terminal, return
StopEmit ==
    /\ ~stCrashed
    /\ rpc = "stopEmit"
    /\ IF stEventsClosed
       THEN /\ stCrashed' = TRUE
            /\ UNCHANGED << stEvents, capEvents, capState, rpc, cur >>
       ELSE /\ Len(stEvents) < STEventChanCap
            /\ stEvents' = Append(stEvents, [from |-> NameOf(cur), event |-> CapturerStopped])
            /\ capEvents' = [capEvents EXCEPT ![cur] = @ + 1]
            /\ capState' = [capState EXCEPT ![cur] = "Terminal"]
            /\ rpc' = "stopAll"
            /\ cur' = NoCapturer
            /\ UNCHANGED stCrashed
    /\ UNCHANGED << nonStVars, stopNoOps, stCapturers, stMut, stEventsClosed, stHandlerFinished,
                    stWg, hVars, inClose, saTodo, nStarted, wtpc, capFanOutClosed,
                    addCall, bcast, addedLive >>

\* line 78: c.mut.Unlock(); Close goes on to line 87
StopAllUnlock ==
    /\ ~stCrashed
    /\ rpc = "stopAll"
    /\ saTodo = {}
    /\ stMut' = "free"
    /\ stopNoOps' = 0
    /\ rpc' = IF inClose THEN "wgWait" ELSE "idle"
    /\ UNCHANGED << nonStVars, stCapturers, chanVars, stWg, stCrashed, hVars, inClose,
                    saTodo, cur, nStarted, captVars, addCall, bcast, addedLive >>

\* line 87: c.wg.Wait()
StorageCloseWait ==
    /\ ~stCrashed
    /\ rpc = "wgWait"
    /\ stWg = 0
    /\ rpc' = "closeCh"
    /\ UNCHANGED << nonStVars, stopNoOps, stCapturers, stMut, chanVars, stWg, stCrashed, hVars,
                    inClose, saTodo, cur, nStarted, captVars, addCall, bcast,
                    addedLive >>

\* line 88: close(c.events)
StorageCloseChannel ==
    /\ ~stCrashed
    /\ rpc = "closeCh"
    /\ stEventsClosed' = TRUE
    /\ rpc' = "waitFin"
    /\ UNCHANGED << nonStVars, stopNoOps, stCapturers, stMut, stEvents, stHandlerFinished, stWg,
                    stCrashed, hVars, inClose, saTodo, cur, nStarted, captVars,
                    addCall, bcast, addedLive >>

\* line 90: <-c.handlerFinished, Close returns
StorageCloseReturn ==
    /\ ~stCrashed
    /\ rpc = "waitFin"
    /\ stHandlerFinished > 0
    /\ stHandlerFinished' = stHandlerFinished - 1
    /\ rpc' = "exited"
    /\ UNCHANGED << nonStVars, stopNoOps, stCapturers, stMut, stEvents, stEventsClosed, stWg,
                    stCrashed, hVars, inClose, saTodo, cur, nStarted, captVars,
                    addCall, bcast, addedLive >>

-----------------------------------------------------------------------------
(* Storage.eventHandler, lines 148-162 *)

\* for e := range c.events
StorageHandlerReceive ==
    /\ ~stCrashed
    /\ shpc = "recv"
    /\ stEvents # << >>
    /\ shev' = Head(stEvents)
    /\ stEvents' = Tail(stEvents)
    /\ shLog' = LogCall(153, "free")
    /\ shpc' = "proc"
    /\ UNCHANGED << nonStVars, stopNoOps, stCapturers, stMut, stEventsClosed, stHandlerFinished,
                    stWg, stCrashed, rpc, inClose, saTodo, cur, nStarted, captVars,
                    addCall, bcast, addedLive >>

\* a faulty handler, which deletes nothing
StorageDeleteNothing(capturers, from) == capturers

\* line 155: delete(c.capturers, e.from)
StorageDelete(capturers, from) == [capturers EXCEPT ![from] = NoCapturer]

\* lines 154-158: lock, delete, tqlog.Info, wg.Done() (which panics on a
\* negative counter), unlock
StorageHandlerProcess ==
    /\ ~stCrashed
    /\ shpc = "proc"
    /\ stMut = "free"
    /\ stCapturers' = StorageDelete(stCapturers, shev.from)
    /\ stWg' = stWg - 1
    /\ stCrashed' = (stWg - 1 < 0)
    /\ addedLive' = addedLive \ {shev.from}
    /\ shev' = NoEvent
    /\ shLog' = LogCall(156, "eventHandler")
    /\ shpc' = "recv"
    /\ UNCHANGED << nonStVars, stopNoOps, stMut, chanVars, rpc, inClose, saTodo, cur, nStarted,
                    captVars, addCall, bcast >>

\* the range loop ends on the closed, drained channel; the deferred send runs
StorageHandlerExit ==
    /\ ~stCrashed
    /\ shpc = "recv"
    /\ stEvents = << >>
    /\ stEventsClosed
    /\ stHandlerFinished' = stHandlerFinished + 1
    /\ shLog' = LogCall(161, "free")
    /\ shpc' = "done"
    /\ UNCHANGED << nonStVars, stopNoOps, stCapturers, stMut, stEvents, stEventsClosed, stWg,
                    stCrashed, shev, rpc, inClose, saTodo, cur, nStarted, captVars,
                    addCall, bcast, addedLive >>

-----------------------------------------------------------------------------
(* Storage.AddNewOutput, lines 102-138, all under the lock.  `outputs`     *)
(* counts, for every capturer, the AddOutputer calls made on it.           *)

\* capt.AddOutputer(factFn)
AddOutputer(outputs, c) == [outputs EXCEPT ![c] = @ + 1]

\* lines 117-122: AddOutputer for each entry of the map
OutputsForAll(outputs, capturers) ==
    [c \in Capturers |->
        IF \E n \in Keys(capturers) : capturers[n] = c
        THEN AddOutputer(outputs, c)[c]
        ELSE outputs[c]]

\* lines 125-130: the AddOutputer calls of the loop over the targets
RECURSIVE OutputsForTargets(_, _, _)
OutputsForTargets(outputs, capturers, targets) ==
    IF targets = << >>
    THEN outputs
    ELSE OutputsForTargets(
            IF capturers[Head(targets)] # NoCapturer
            THEN AddOutputer(outputs, capturers[Head(targets)])
            ELSE outputs,
            capturers, Tail(targets))

\* lines 131-135: the feedback lines of the loop over the targets
RECURSIVE FeedbackForTargets(_, _)
FeedbackForTargets(capturers, targets) ==
    IF targets = << >>
    THEN << >>
    ELSE (IF capturers[Head(targets)] # NoCapturer
          THEN << >>
          ELSE << TargetDoesNotExist(Head(targets)) >>)
         \o FeedbackForTargets(capturers, Tail(targets))

\* a faulty AddNewOutput, which ignores its targets
AddNewOutputOutputsToAll(outputs, capturers, targets) ==
    OutputsForAll(outputs, capturers)

\* a faulty AddNewOutput, which has nothing to say about an empty map
AddNewOutputFeedbackSilent(capturers, targets) ==
    FeedbackForTargets(capturers, targets)

\* lines 109-136: the AddOutputer calls AddNewOutput makes
AddNewOutputOutputs(outputs, capturers, targets) ==
    IF Len(targets) = 0
    THEN IF Keys(capturers) = {}
         THEN outputs
         ELSE OutputsForAll(outputs, capturers)
    ELSE OutputsForTargets(outputs, capturers, targets)

\* lines 109-136: the feedback lines AddNewOutput emits
AddNewOutputFeedback(capturers, targets) ==
    IF Len(targets) = 0
    THEN IF Keys(capturers) = {}
         THEN << NoRunningCapturers >>
         ELSE << >>
    ELSE FeedbackForTargets(capturers, targets)

\* the capturers whose AddOutputer fails: the factory yields no sink for them
FailingSets == {{}} \cup {{c} : c \in Capturers}

\* the sinks the AddOutputer calls have attached: a call whose factory
\* yields nil returns an error and attaches nothing
AddNewOutputAdded(outputs, failing) ==
    [c \in Capturers |-> IF c \in failing THEN 0 ELSE outputs[c]]

\* lines 119-121, 127-129: tqlog.Error for every capturer whose AddOutputer failed
AddNewOutputErrors(outputs, failing) ==
    {ErrorAddingOutputer(NameOf(c)) : c \in {f \in failing : outputs[f] > 0}}

\* lines 103-137
AddNewOutput ==
    /\ ~stCrashed
    /\ rpc = "idle"
    /\ stMut = "free"
    /\ stMut' = "AddNewOutput"
    /\ \E targets \in TargetLists, failing \in FailingSets :
         LET outputs == AddNewOutputOutputs([c \in Capturers |-> 0],
                                            stCapturers, targets)
         IN  bcast' = [pre |-> stCapturers,
                       targets |-> targets,
                       feedback |-> AddNewOutputFeedback(stCapturers, targets),
                       outputs |-> outputs,
                       failing |-> failing,
                       added |-> AddNewOutputAdded(outputs, failing),
                       errors |-> AddNewOutputErrors(outputs, failing)]
    /\ rpc' = "bcast"
    /\ UNCHANGED << nonStVars, stopNoOps, stCapturers, chanVars, stWg, stCrashed, hVars, inClose,
                    saTodo, cur, nStarted, captVars, addCall, addedLive >>

\* the deferred Unlock of line 104: AddNewOutput returns
AddNewOutputReturn ==
    /\ ~stCrashed
    /\ rpc = "bcast"
    /\ stMut' = "free"
    /\ bcast' = NoBroadcast
    /\ rpc' = "idle"
    /\ UNCHANGED << nonStVars, stopNoOps, stCapturers, chanVars, stWg, stCrashed, hVars, inClose,
                    saTodo, cur, nStarted, captVars, addCall, addedLive >>

-----------------------------------------------------------------------------

STNext ==
    \/ CapturerStart
    \/ AddStarted
    \/ AddDuplicate
    \/ AddReturn
    \/ \E c \in Capturers : WaiterEmitDead(c)
    \/ \E c \in Capturers : WaiterCloseFanOut(c)
    \/ CmdStop
    \/ CmdExit
    \/ StopAllLock
    \/ StopAllNext
    \/ StopEmit
    \/ StopAllUnlock
    \/ StorageCloseWait
    \/ StorageCloseChannel
    \/ StorageCloseReturn
    \/ StorageHandlerReceive
    \/ StorageHandlerProcess
    \/ StorageHandlerExit
    \/ AddNewOutput
    \/ AddNewOutputReturn

\* Every goroutine that can take a step eventually takes it; the user is
\* free to stop issuing commands and a remote command need not exit.
STFairness ==
    /\ WF_vars(AddReturn)
    /\ WF_vars(AddNewOutputReturn)
    /\ WF_vars(StopAllLock)
    /\ WF_vars(StopAllNext)
    /\ WF_vars(StopEmit)
    /\ WF_vars(StopAllUnlock)
    /\ WF_vars(StorageCloseWait)
    /\ WF_vars(StorageCloseChannel)
    /\ WF_vars(StorageCloseReturn)
    /\ WF_vars(StorageHandlerReceive)
    /\ WF_vars(StorageHandlerProcess)
    /\ WF_vars(StorageHandlerExit)
    /\ \A c \in Capturers : WF_vars(WaiterCloseFanOut(c))

-----------------------------------------------------------------------------
(* capture.StdErrHandler, the StderrPidSniffer of design section 4.B: a    *)
(* writable sink on the remote command's stderr.  It scans the incoming    *)
(* bytes line by line for a line that is the marker prefix followed by an  *)
(* ASCII decimal integer and a newline.  The first line sets the PID: to   *)
(* the integer when the line is well formed, to -1 otherwise.  Later lines *)
(* are consumed and ignored.  The PID field is guarded: Write and GetPid   *)
(* access it one at a time.                                                *)

\* number of Write calls
MaxSnWrites == 3

\* number of bytes written in all
MaxSnInput == 8

\* number of GetPid calls
MaxSnGets == 2

Newline == "\n"
Digits == << "0", "1", "2", "3", "4", "5", "6", "7", "8", "9" >>

\* the marker prefix
pidPrefix == << "P", ":" >>

\* the buffers handed to Write: whole lines, well formed and malformed,
\* parts of lines, and two lines at once
SnBuffers ==
    { pidPrefix \o << "1", Newline >>,
      pidPrefix \o << "2", "1", Newline >>,
      pidPrefix \o << "x", Newline >>,
      pidPrefix \o << "1", "x", Newline >>,
      pidPrefix \o << Newline >>,
      << "x", "1", Newline >>,
      << "1", Newline >>,
      << Newline >>,
      pidPrefix,
      << "2" >>,
      << "x" >>,
      << "2", Newline >>,
      << "x", Newline >> \o pidPrefix \o << "1", Newline >> }

IsDigit(ch) == \E d \in 1..Len(Digits) : Digits[d] = ch

DigitValue(ch) == (CHOOSE d \in 1..Len(Digits) : Digits[d] = ch) - 1

\* the value of a string of decimal digits
RECURSIVE Atoi(_)
Atoi(str) ==
    IF str = << >>
    THEN 0
    ELSE Atoi(SubSeq(str, 1, Len(str) - 1)) * 10 + DigitValue(str[Len(str)])

HasPrefix(line, prefix) ==
    /\ Len(line) >= Len(prefix)
    /\ SubSeq(line, 1, Len(prefix)) = prefix

\* a faulty parser, which takes the digits wherever the line begins
ParsePidAnyPrefix(line) ==
    LET value == SelectSeq(line, IsDigit)
    IN  IF value # << >> THEN Atoi(value) ELSE -1

\* the PID a line (without its newline) announces, -1 when it is malformed
ParsePid(line) ==
    IF HasPrefix(line, pidPrefix)
    THEN LET value == SubSeq(line, Len(pidPrefix) + 1, Len(line))
         IN  IF value # << >> /\ \A i \in 1..Len(value) : IsDigit(value[i])
             THEN Atoi(value)
             ELSE -1
    ELSE -1

\* a faulty field, which every line sets
SetPidEveryLine(pid, line) == ParsePid(line)

\* the PID field after a complete line: only the first line sets it
SetPid(pid, line) == IF pid = 0 THEN ParsePid(line) ELSE pid

\* the PID field and the incomplete line after the bytes of buf
RECURSIVE Scan(_, _, _)
Scan(pid, line, buf) ==
    IF buf = << >>
    THEN [pid |-> pid, line |-> line]
    ELSE IF Head(buf) = Newline
         THEN Scan(SetPid(pid, line), << >>, Tail(buf))
         ELSE Scan(pid, Append(line, Head(buf)), Tail(buf))

(* NewStdErrHandler *)
SNInit ==
    /\ snPid = 0
    /\ snLine = << >>
    /\ snInput = << >>
    /\ snWrites = 0
    /\ snGot = << >>

(* StdErrHandler.Write(buf) *)
SnifferWrite ==
    /\ snWrites < MaxSnWrites
    /\ \E buf \in SnBuffers :
         /\ Len(snInput) + Len(buf) <= MaxSnInput
         /\ LET r == Scan(snPid, snLine, buf)
            IN  /\ snPid' = r.pid
                /\ snLine' = r.line
         /\ snInput' = snInput \o buf
    /\ snWrites' = snWrites + 1
    /\ UNCHANGED << nonSnVars, snGot >>

(* StdErrHandler.GetPid() *)
SnifferGetPid ==
    /\ Len(snGot) < MaxSnGets
    /\ snGot' = Append(snGot, [writes |-> snWrites, pid |-> snPid])
    /\ UNCHANGED << nonSnVars, snPid, snLine, snInput, snWrites >>

SNNext ==
    \/ SnifferWrite
    \/ SnifferGetPid

-----------------------------------------------------------------------------
(* cmd/tranqap: parseConfig, getClientConfig and cmdStart.  A document is  *)
(* either not YAML at all or a list of targets; of a target the model      *)
(* keeps its name (NoName when the field is absent) and which of the other *)
(* mandatory fields are absent.  The i-th target is named i, or repeats    *)
(* the name of the first target, or has no name.  The capturer made for a  *)
(* target carries the target's name.                                       *)

NoName == 0

Garbage == [names |-> << >>, missing |-> << >>, yaml |-> FALSE]

\* the mandatory fields besides the name, in the order getClientConfig checks them
OtherFields == << "user", "key", "host", "destination", "filePattern" >>

\* the fields absent from a target: none, any one, or all
MissingSets == {{}} \cup {{OtherFields[i]} : i \in 1..Len(OtherFields)}
                    \cup {Range(OtherFields)}

NameLists(n) ==
    {f \in [1..n -> {NoName} \cup Names] : \A i \in 1..n : f[i] \in {NoName, i, 1}}

Documents ==
    {Garbage} \cup
    UNION {[names : NameLists(n), missing : [1..n -> MissingSets], yaml : {TRUE}]
              : n \in 0..MaxCapturers}

\* checkForDuplicates, lines 36-50: *t.Name panics on a nil Name
RECURSIVE CheckForDuplicates(_, _)
CheckForDuplicates(names, nameSet) ==
    IF names = << >>
    THEN "nil"
    ELSE IF Head(names) = NoName
         THEN "panic"
         ELSE IF Head(names) \in nameSet
              THEN "target is defined more than once"
              ELSE CheckForDuplicates(Tail(names), nameSet \cup {Head(names)})

\* parseConfig, lines 66-85
ParseResult(doc) ==
    IF ~doc.yaml
    THEN "yaml: unmarshal error"
    ELSE IF Len(doc.names) = 0
         THEN "No targets defined in config"
         ELSE CheckForDuplicates(doc.names, {})

\* getClientConfig, lines 92-120 and 148-160: the first absent field is the
\* error; the key file must be readable and hold a private key
GetClientConfig(name, missing, keyOk) ==
    IF name = NoName
    THEN "Missing Name in configuration"
    ELSE IF \E i \in 1..Len(OtherFields) : OtherFields[i] \in missing
         THEN << "Missing", OtherFields[CHOOSE i \in 1..Len(OtherFields) :
                                           /\ OtherFields[i] \in missing
                                           /\ \A j \in 1..(i - 1) : OtherFields[j] \notin missing] >>
         ELSE IF ~keyOk
              THEN "unable to read private key"
              ELSE "nil"

\* no file at the path
Absent == [names |-> << >>, missing |-> << >>, yaml |-> FALSE, exists |-> FALSE]

\* the file at the path holds the document doc
FileOf(doc) == [names |-> doc.names, missing |-> doc.missing, yaml |-> doc.yaml,
                exists |-> TRUE]

\* the document in the file
ReadFile(file) == [names |-> file.names, missing |-> file.missing, yaml |-> file.yaml]

\* lines 173-190: one target, with every field set
SampleConfig == [names |-> << 1 >>, missing |-> << {} >>, yaml |-> TRUE]

\* number of times the init subcommand is run
MaxInits == 2

\* a faulty generateSampleConfig, which does not look at the path first
GenerateOverwrite(file, env) ==
    IF ~env.writeOk
    THEN [file |-> file, ret |-> "Error writing sample configuration to file"]
    ELSE [file |-> FileOf(SampleConfig), ret |-> "nil"]

\* generateSampleConfig, lines 168-201: the file it leaves and what it
\* returns.  os.Stat fails with "not exist" for an absent file, or with
\* another error when the path cannot be examined.
GenerateSampleConfig(file, env) ==
    IF file.exists \/ ~env.statOk
    THEN [file |-> file, ret |-> "already exists. Will not overwrite existing config"]
    ELSE IF ~env.writeOk
         THEN [file |-> file, ret |-> "Error writing sample configuration to file"]
         ELSE [file |-> FileOf(SampleConfig), ret |-> "nil"]

CFGInit ==
    /\ fsConf \in {Absent} \cup {FileOf(doc) : doc \in Documents}
    /\ gsRet = "none"
    /\ gsPre = Absent
    /\ gsCalls = 0
    /\ cfgDoc = Garbage
    /\ cfgpc = "read"
    /\ cfgErr = "nil"
    /\ cfgIdx = 0
    /\ cfgOut = "none"
    /\ cfgFailedAt = 0
    /\ cfgEntryEmpty = TRUE

(* the init subcommand: generateSampleConfig(path) *)
CmdInit ==
    /\ cfgpc = "read"
    /\ gsCalls < MaxInits
    /\ \E env \in [statOk : BOOLEAN, writeOk : BOOLEAN] :
         LET r == GenerateSampleConfig(fsConf, env)
         IN  /\ fsConf' = r.file
             /\ gsRet' = r.ret
    /\ gsPre' = fsConf
    /\ gsCalls' = gsCalls + 1
    /\ UNCHANGED << moVars, stVars, snVars, cfgDoc, cfgpc, cfgErr, cfgIdx, cfgOut,
                    cfgFailedAt, cfgEntryEmpty >>

(* readConfigFromFile, lines 53-56: ioutil.ReadFile(fname) *)
ReadConfigFromFile ==
    /\ cfgpc = "read"
    /\ IF fsConf.exists
       THEN /\ cfgDoc' = ReadFile(fsConf)
            /\ cfgpc' = "parse"
            /\ UNCHANGED cfgErr
       ELSE /\ cfgpc' = "error"
            /\ cfgErr' = "Run init subcommand to generate empty config"
            /\ UNCHANGED cfgDoc
    /\ UNCHANGED << moVars, stVars, snVars, gsVars, cfgIdx, cfgOut, cfgFailedAt,
                    cfgEntryEmpty >>

(* readConfigFromFile, line 58: parseConfig(confFile) *)
ParseConfig ==
    /\ cfgpc = "parse"
    /\ LET r == ParseResult(cfgDoc)
       IN  /\ cfgpc' = IF r = "nil" THEN "loaded" ELSE IF r = "panic" THEN "panic" ELSE "error"
           /\ cfgErr' = IF r = "panic" THEN "nil" ELSE r
    /\ UNCHANGED << moVars, stVars, snVars, gsVars, cfgDoc, cfgIdx, cfgOut, cfgFailedAt,
                    cfgEntryEmpty >>

\* a faulty start command, which never refuses
StartRefusedNever(capturers) == FALSE

\* line 46: start is refused unless capturers.Empty()
StartRefused(capturers) == ~Empty(capturers)

(* cmdStart, lines 46-51 *)
CmdStartBegin ==
    /\ ~stCrashed
    /\ cfgpc = "loaded"
    /\ rpc = "idle"
    /\ stMut = "free"
    /\ cfgEntryEmpty' = Empty(stCapturers)
    /\ cfgFailedAt' = 0
    /\ IF StartRefused(stCapturers)
       THEN /\ cfgOut' = "refused"
            /\ UNCHANGED << cfgpc, cfgIdx >>
       ELSE /\ cfgOut' = "none"
            /\ cfgpc' = "loop"
            /\ cfgIdx' = 1
    /\ UNCHANGED << moVars, stVars, snVars, gsVars, cfgDoc, cfgErr >>

\* lines 54-87 for one target: "started", or the stage that failed
TargetOutcome(name, missing, env) ==
    IF GetClientConfig(name, missing, env.keyOk) # "nil"
    THEN "client configuration"
    ELSE IF ~env.sinkOk
         THEN "sink construction"
         ELSE IF ~env.startOk
              THEN "start"
              ELSE "started"

(* cmdStart, lines 53-87: the loop reaches a target; on the first failure  *)
(* the command returns (line 56 prints *t.Name, which panics on a nil      *)
(* Name); after a successful Start the capturer goes to Add.               *)
CmdStartTarget ==
    /\ ~stCrashed
    /\ cfgpc = "loop"
    /\ rpc = "idle"
    /\ cfgIdx <= Len(cfgDoc.names)
    /\ \E env \in [keyOk : BOOLEAN, sinkOk : BOOLEAN, startOk : BOOLEAN] :
         LET name == cfgDoc.names[cfgIdx]
             outcome == TargetOutcome(name, cfgDoc.missing[cfgIdx], env)
         IN  IF outcome = "started"
             THEN /\ capState' = [capState EXCEPT ![name] = "Running"]
                  /\ cur' = name
                  /\ rpc' = "add"
                  /\ cfgIdx' = cfgIdx + 1
                  /\ UNCHANGED << cfgpc, cfgOut, cfgFailedAt >>
             ELSE /\ cfgpc' = IF outcome = "client configuration" /\ name = NoName
                              THEN "panic"
                              ELSE "loaded"
                  /\ cfgOut' = "failed"
                  /\ cfgFailedAt' = cfgIdx
                  /\ UNCHANGED << capState, cur, rpc, cfgIdx >>
    /\ UNCHANGED << moVars, snVars, stCapturers, stMut, chanVars, stWg, stCrashed,
                    hVars, inClose, saTodo, stopNoOps, nStarted, wtpc, capEvents,
                    capFanOutClosed, addCall, bcast, addedLive, gsVars, cfgDoc, cfgErr,
                    cfgEntryEmpty >>

(* cmdStart, line 93: the loop is over *)
CmdStartReturn ==
    /\ ~stCrashed
    /\ cfgpc = "loop"
    /\ rpc = "idle"
    /\ cfgIdx > Len(cfgDoc.names)
    /\ cfgpc' = "loaded"
    /\ cfgOut' = "done"
    /\ UNCHANGED << moVars, stVars, snVars, gsVars, cfgDoc, cfgErr, cfgIdx, cfgFailedAt,
                    cfgEntryEmpty >>

CFGNext ==
    \/ CmdInit
    \/ ReadConfigFromFile
    \/ ParseConfig
    \/ CmdStartBegin
    \/ CmdStartTarget
    \/ AddStarted
    \/ AddReturn
    \/ CmdStartReturn

-----------------------------------------------------------------------------

\* the FanOut of a started capturer: its file sink is its only member
MOIdle == moMembers = << FileSink >> /\ MOInit

\* no configuration file is involved
CFGIdle == fsConf = Absent /\ CFGInit

Init == MOInit /\ STInit /\ SNInit /\ CFGIdle

InitStorage == MOIdle /\ STInit /\ SNInit /\ CFGIdle

InitSniffer == MOIdle /\ STInit /\ SNInit /\ CFGIdle

InitStart == MOIdle /\ STInit /\ SNInit /\ CFGInit

InitEventLoop == MOInit /\ STInit /\ SNInit /\ CFGIdle

Next == MONext

\* the FanOut with its writer, its sinks and its callers
Spec == Init /\ [][Next]_vars /\ MOFairness

\* the Storage with its capturers and the command thread
SpecStorage == InitStorage /\ [][STNext]_vars /\ STFairness

\* the StdErrHandler with its writer and the callers of GetPid
SpecSniffer == InitSniffer /\ [][SNNext]_vars

\* the event loop of the FanOut, with events of members and of non-members
SpecEventLoop == InitEventLoop /\ [][ELNext]_vars

\* the init subcommand, the configuration loader and the start command
SpecStart == InitStart /\ [][CFGNext]_vars

-----------------------------------------------------------------------------
(* Properties of the FanOut *)

\* the viewer sinks the factory has created so far
Created == {s \in ExtSinks : sinkChild[s] # "none"}

\* every current member has received the header bytes written to it on
\* registration, followed by the input bytes forwarded since, in order
MemberStreamInOrder ==
    \A i \in 1..Len(moMembers) :
        LET s == moMembers[i]
            handed == IF (wpc = "call" /\ i <= wIdx) \/ (wpc = "loop" /\ i < wIdx)
                      THEN inputLen
                      ELSE fwdLen
        IN  sinkRecv[s] = regHdr[s] \o Stamps(regFwd[s], handed)

\* no input byte occurs twice in the stream
NoByteTwice(stream) ==
    \A i, j \in 1..Len(stream) :
        (i < j /\ stream[i] = stream[j]) => stream[i] = StaleByte

\* C1: after any sequence of Write and AddExtMember calls, each sink has
\* received the captured header bytes followed, in arrival order, by the
\* buffers written after it was registered; a sink added once the header
\* buffer holds 24 bytes has received the first 24 bytes of the input as its
\* first 24 bytes.
C1_SinkStreamIsHeaderThenWrites ==
    /\ MemberStreamInOrder
    /\ \A s \in Created :
          Len(regHdr[s]) = pcapHeaderSize =>
              /\ Len(sinkRecv[s]) >= pcapHeaderSize
              /\ SubSeq(sinkRecv[s], 1, pcapHeaderSize) = Stamps(0, pcapHeaderSize)

\* C2: a sink added while a Write is in progress does not see that write,
\* and the stream of every added sink holds the header bytes once: no input
\* byte reaches it twice.
C2_AddSinkAtomicWithWrite ==
    \A s \in Created :
        /\ ~sawMidWrite[s]
        /\ NoByteTwice(sinkRecv[s])

\* C3: a Close called while a viewer sink is still a member returns (or the
\* process has panicked), every sink emitting its OutputerDead event.
C3_CloseReturnsWithViewers ==
    (cpc = "wait" /\ \E s \in ExtSinks : s \in Range(moMembers))
        ~> (cpc = "done" \/ moCrashed)


\* the stream ends with the buffer p
EndsWith(stream, p) ==
    /\ Len(stream) >= Len(p)
    /\ SubSeq(stream, Len(stream) - Len(p) + 1, Len(stream)) = p

\* C11: Write returns (len(p), nil) whatever the sinks return; when its loop
\* is over every member has been handed the whole buffer, the members whose
\* Write failed are still members, and while the Write of one member has not
\* returned no other member is still waiting for the buffer.
C11_WriteDeliversDespiteSinks ==
    /\ wRet # << >> => wRet[2] = "nil"
    /\ (wpc = "idle" /\ wRet # << >>) => wRet[1] = Len(wbuf.data)
    /\ (wpc = "loop" /\ wIdx > Len(moMembers)) =>
           \A o \in Range(moMembers) : EndsWith(sinkRecv[o], wbuf.data)
    /\ wFailed \subseteq Range(moMembers)
    /\ wpc = "call" =>
           \A i \in 1..Len(moMembers) :
               i # wIdx => EndsWith(sinkRecv[moMembers[i]], wbuf.data)

\* C15: a Close that finds no member returns (unless another goroutine
\* panics meanwhile), and when Close has returned the event channel is
\* closed and the event handler has left its loop.
C15_CloseWithoutSinksReturns ==
    /\ (cpc = "wait" /\ moMembers = << >>) ~> (cpc = "done" \/ moCrashed)
    /\ [](cpc = "done" => (moEventsClosed /\ hpc = "done"))

\* Close has returned on a FanOut that had no member
C15_Witness ==
    /\ cpc = "done"
    /\ moMembers = << >>
    /\ moEventsClosed
    /\ hpc = "done"

-----------------------------------------------------------------------------
(* Properties of the Storage and its capturers *)

\* C4: every capturer sends at most one lifecycle event, a capturer that
\* has reached Terminal has sent exactly one, and an event is sent only
\* once the capturer's FanOut has been closed.
C4_OneLifecycleEventAfterSinksClosed ==
    \A c \in Capturers :
        /\ capEvents[c] <= 1
        /\ capEvents[c] >= 1 => capFanOutClosed[c]
        /\ capState[c] = "Terminal" => capEvents[c] = 1

\* C5: Empty() is true exactly when no capturer has been Added without a
\* lifecycle event for it having been handled by the handler since.
C5_EmptyIffNoLiveCapturer ==
    Empty(stCapturers) <=> addedLive = {}

\* the first capturer was added, has died, and its event has been handled
C5_Witness ==
    /\ ~stCrashed
    /\ nStarted = 1
    /\ rpc = "idle"
    /\ capEvents[1] = 1
    /\ stEvents = << >>
    /\ shpc = "recv"
    /\ Empty(stCapturers)

\* C6: when Add is about to return, then if the name of its argument was a
\* key it returns the duplicate error and the map and the wait-group counter
\* are as it found them; otherwise it returns nil, the map holds the argument
\* under its name and is otherwise as before, and the counter is one higher.
C6_AddDuplicateOrInsert ==
    rpc = "addRet" =>
        LET c == addCall.newCapt
            capturers == addCall.pre[1]
            wg == addCall.pre[2]
        IN  IF NameOf(c) \in Keys(capturers)
            THEN /\ addCall.ret = "error"
                 /\ stCapturers = capturers
                 /\ stWg = wg
            ELSE /\ addCall.ret = "nil"
                 /\ stCapturers[NameOf(c)] = c
                 /\ \A n \in Names \ {NameOf(c)} : stCapturers[n] = capturers[n]
                 /\ stWg = wg + 1

\* Add has refused the second capturer named 1, the first is still registered
C6_Witness ==
    /\ rpc = "addRet"
    /\ addCall.newCapt = DuplicateOf(1)
    /\ addCall.ret = "error"
    /\ stCapturers[1] = 1

\* no remote command has exited on its own
NoUnexpectedExit == \A c \in Capturers : wtpc[c] = "idle"

\* C7: a Close that has started stopping the registered capturers returns,
\* with the map empty, the wait-group counter zero, the event channel closed
\* and the handler gone (unless a remote command exits on its own or the
\* process panics).
C7_CloseReturns ==
    (inClose /\ rpc = "stopAll" /\ NoUnexpectedExit)
        ~> \/ /\ rpc = "exited"
              /\ Empty(stCapturers)
              /\ stWg = 0
              /\ stEventsClosed
              /\ shpc = "done"
           \/ stCrashed
           \/ ~NoUnexpectedExit

\* C8: while a Capturer's Stop is executing, the Storage's mutex is not held
C8_LockFreeDuringStop ==
    rpc = "stopEmit" => stMut = "free"

\* the number of entries of targets that name the capturer c
TimesListed(capturers, targets, c) ==
    Cardinality({i \in 1..Len(targets) : capturers[targets[i]] = c})

\* the entries of targets that are not keys
UnknownTargets(capturers, targets) ==
    LET IsUnknown(t) == capturers[t] = NoCapturer
    IN  SelectSeq(targets, IsUnknown)

\* C9: when AddNewOutput with a non-empty list is about to return, it has
\* called AddOutputer on each capturer once for every entry of the list that
\* names it and on no other capturer, has emitted one "Target doesn't exist"
\* line for every entry that is not a key, and the map is as it found it.
C9_BroadcastToNamedTargets ==
    (rpc = "bcast" /\ bcast.targets # << >>) =>
        LET unknown == UnknownTargets(bcast.pre, bcast.targets)
        IN  /\ \A c \in Capturers :
                  bcast.outputs[c] = TimesListed(bcast.pre, bcast.targets, c)
            /\ bcast.feedback = [i \in 1..Len(unknown) |-> TargetDoesNotExist(unknown[i])]
            /\ stCapturers = bcast.pre

\* a broadcast to an unknown and a registered name
C9_Witness ==
    /\ rpc = "bcast"
    /\ bcast.targets = << 2, 1 >>
    /\ bcast.pre[1] = 1
    /\ bcast.pre[2] = NoCapturer
    /\ bcast.outputs[1] = 1
    /\ bcast.feedback = << TargetDoesNotExist(2) >>

\* C10: when AddNewOutput with an empty list is about to return, then if
\* the map was empty it has emitted the "no running capturers" line and has
\* called AddOutputer on no capturer; otherwise it has called AddOutputer
\* once on every registered capturer and has emitted nothing.
C10_BroadcastToAll ==
    (rpc = "bcast" /\ bcast.targets = << >>) =>
        IF Keys(bcast.pre) = {}
        THEN /\ bcast.feedback = << NoRunningCapturers >>
             /\ \A c \in Capturers : bcast.outputs[c] = 0
        ELSE /\ bcast.feedback = << >>
             /\ \A c \in Capturers :
                   bcast.outputs[c] =
                       IF \E n \in Keys(bcast.pre) : bcast.pre[n] = c THEN 1 ELSE 0

\* a broadcast to the two registered capturers
C10_Witness ==
    /\ rpc = "bcast"
    /\ bcast.targets = << >>
    /\ Keys(bcast.pre) = {1, 2}
    /\ bcast.outputs = [c \in Capturers |-> IF c \in {1, 2} THEN 1 ELSE 0]

\* C12: a Stop called by StopAll on a capturer that is Stopping or Terminal
\* returns at once: it sends no event, closes no FanOut, changes no capturer
\* state and does not panic.
C12_StopOnStoppedIsNoOp ==
    [][\A n \in Names :
          (rpc = "stopAll" /\ n \in saTodo /\ n \notin saTodo'
                /\ capState[stCapturers[n]] \in {"Stopping", "Terminal"})
            => /\ capEvents' = capEvents
               /\ capFanOutClosed' = capFanOutClosed
               /\ capState' = capState
               /\ stEvents' = stEvents
               /\ rpc' = "stopAll"
               /\ ~stCrashed']_vars

\* the StopAll of Close has met a capturer that the stop command had stopped
\* and whose entry the handler has not removed yet
C12_Witness ==
    /\ ~stCrashed
    /\ NoUnexpectedExit
    /\ inClose
    /\ rpc = "stopAll"
    /\ stopNoOps >= 1
    /\ \E n \in Keys(stCapturers) \ saTodo : capState[stCapturers[n]] = "Terminal"

-----------------------------------------------------------------------------
(* Properties of the StdErrHandler *)

\* the largest PID the properties look for
MaxSnPid == 99

\* fmt.Sprintf("%d", n)
RECURSIVE Decimal(_)
Decimal(n) ==
    IF n < 10
    THEN << Digits[n + 1] >>
    ELSE Decimal(n \div 10) \o << Digits[(n % 10) + 1] >>

\* the input so far is one line: its only newline is its last byte
InputIsOneLine ==
    /\ snInput # << >>
    /\ \A i \in 1..Len(snInput) : snInput[i] = Newline <=> i = Len(snInput)

\* C13: after one Write of a single line to a fresh handler, GetPid returns
\* n when the line is the marker prefix, the decimal digits of n and the
\* newline; it returns -1 when the prefix is followed by something that is
\* not a number, and when the line does not begin with the prefix.
C13_GetPidAfterOneLine ==
    (snWrites = 1 /\ InputIsOneLine) =>
        LET line == SubSeq(snInput, 1, Len(snInput) - 1)
            value == SubSeq(line, Len(pidPrefix) + 1, Len(line))
        IN  \A i \in 1..Len(snGot) :
                snGot[i].writes = 1 =>
                    /\ \A n \in 0..MaxSnPid :
                           line = pidPrefix \o Decimal(n) => snGot[i].pid = n
                    /\ (/\ HasPrefix(line, pidPrefix)
                        /\ (value = << >> \/ \E k \in 1..Len(value) : ~IsDigit(value[k])))
                           => snGot[i].pid = -1
                    /\ ~HasPrefix(line, pidPrefix) => snGot[i].pid = -1

\* the line "P:21" was written and GetPid has returned 21
C13_Witness ==
    /\ snWrites = 1
    /\ snInput = pidPrefix \o << "2", "1", Newline >>
    /\ snGot = << [writes |-> 1, pid |-> 21] >>

\* C14: the PID field never leaves a non-zero value, and every GetPid has
\* returned 0 or the value the field has now.
C14_PidSetAtMostOnce ==
    /\ [][snPid # 0 => snPid' = snPid]_vars
    /\ [](\A i \in 1..Len(snGot) : snGot[i].pid \in {0, snPid})
    /\ [](snPid >= -1)

\* the line "P:1" set the PID, the line "P:2" came later in two Writes, and
\* GetPid returned 0 before the first and 1 after the last
C14_Witness ==
    /\ snInput = pidPrefix \o << "1", Newline >> \o pidPrefix \o << "2", Newline >>
    /\ snWrites = 3
    /\ snPid = 1
    /\ snGot = << [writes |-> 0, pid |-> 0], [writes |-> 3, pid |-> 1] >>

-----------------------------------------------------------------------------
(* Properties of the configuration loader and the start command *)

\* some target of the document lacks a mandatory field
HasMissingField(doc) ==
    /\ doc.yaml
    /\ \E i \in 1..Len(doc.names) : doc.names[i] = NoName \/ doc.missing[i] # {}

\* C16: with a document in which some target lacks a mandatory field,
\* loading never panics, the start command never completes, and no
\* capturer is started or registered.
C16_MissingFieldIsAnError ==
    HasMissingField(cfgDoc) =>
        /\ cfgpc # "panic"
        /\ cfgOut # "done"
        /\ Keys(stCapturers) = {}
        /\ \A c \in Capturers : capState[c] = "Init"

\* C18: when the start command has given up at target k, no later target
\* is started, target k is neither running nor registered, and every
\* earlier target is running and registered; the command goes through the
\* targets only when the Storage was empty at its entry, and a refused
\* command changes nothing in the Storage or the capturers.
C18_StartStopsAtFirstFailure ==
    /\ [](cfgOut = "failed" =>
            LET names == cfgDoc.names
                k == cfgFailedAt
            IN  /\ \A i \in (k + 1)..Len(names) : capState[names[i]] = "Init"
                /\ capState[names[k]] = "Init"
                /\ names[k] \notin Keys(stCapturers)
                /\ \A i \in 1..(k - 1) :
                       /\ capState[names[i]] = "Running"
                       /\ stCapturers[names[i]] = names[i])
    /\ [](cfgpc = "loop" => cfgEntryEmpty)
    /\ [](cfgOut = "refused" => ~cfgEntryEmpty)
    /\ [][cfgOut' = "refused" => stVars' = stVars]_vars

\* the first of three targets runs and is registered, the second failed,
\* the third was not started
C18_Witness ==
    /\ cfgOut = "failed"
    /\ cfgFailedAt = 2
    /\ Len(cfgDoc.names) = 3
    /\ capState[1] = "Running"
    /\ stCapturers[1] = 1
    /\ capState[3] = "Init"

\* C17: generateSampleConfig returns an error and leaves the file as it was
\* when there was a file at the path; it has written the sample document
\* only when there was none, and it returns nil exactly when it has.
C17_InitNeverOverwrites ==
    gsRet # "none" =>
        /\ gsPre.exists => (gsRet # "nil" /\ fsConf = gsPre)
        /\ fsConf # gsPre => (~gsPre.exists /\ fsConf = FileOf(SampleConfig))
        /\ gsRet = "nil" <=> (~gsPre.exists /\ fsConf = FileOf(SampleConfig))

\* the second run of the init subcommand found the sample document of the
\* first and returned an error
C17_Witness ==
    /\ gsCalls = 2
    /\ gsPre = FileOf(SampleConfig)
    /\ fsConf = FileOf(SampleConfig)
    /\ gsRet # "nil"

-----------------------------------------------------------------------------
(* Properties of AddNewOutput when an AddOutputer call fails, and of the   *)
(* tqlog calls made with a mutex held                                      *)

\* C19: when AddOutputer fails for one capturer of a broadcast, a feedback
\* line says so, no sink is attached to that capturer, and every other
\* capturer gets a sink for each of its AddOutputer calls.
C19_AddSinkFailureSurfaced ==
    rpc = "bcast" =>
        \A c \in bcast.failing :
            bcast.outputs[c] > 0 =>
                /\ \E i \in DOMAIN bcast.feedback :
                     bcast.feedback[i] = ErrorAddingOutputer(NameOf(c))
                /\ bcast.added[c] = 0
                /\ \A d \in Capturers \ bcast.failing :
                     bcast.added[d] = bcast.outputs[d]

\* C20: no tqlog call is made with c.mut held: the handler's last call was
\* made without it, and AddNewOutput has emitted no line while it holds it.
C20_NoLogUnderLock ==
    /\ shLog.mut = "free"
    /\ stMut = "AddNewOutput" =>
         (bcast.feedback = << >> /\ bcast.errors = {})

-----------------------------------------------------------------------------
(* Properties of the header buffer, the event loop and the counters *)

Min(a, b) == IF a < b THEN a ELSE b

\* C21: the header buffer is the first min(24, n) bytes of the n input bytes
\* written so far; its length never decreases and never exceeds 24, and once
\* it holds 24 bytes it never changes.
C21_HeaderIsInputPrefix ==
    /\ [](moPcapHeader = Stamps(0, Min(pcapHeaderSize, inputLen)))
    /\ [][/\ Len(moPcapHeader') >= Len(moPcapHeader)
          /\ Len(moPcapHeader') <= pcapHeaderSize
          /\ Len(moPcapHeader) = pcapHeaderSize => moPcapHeader' = moPcapHeader]_vars

\* the members without the sink s, in their order
Without(members, s) == SelectSeq(members, LAMBDA x : x # s)

\* C22: handling OutputerDead{from} removes exactly `from` and lowers the
\* counter by one when `from` is a member, the other members keeping their
\* order; it leaves the members and the counter alone when it is not.
C22_EventLoopRemovesExactlyFrom ==
    [][(hpc = "proc" /\ hpc' = "recv") =>
          IF hev \in Range(moMembers)
          THEN /\ moMembers' = Without(moMembers, hev)
               /\ moWg' = moWg - 1
          ELSE /\ moMembers' = moMembers
               /\ moWg' = moWg]_vars

\* sink 1 has been removed by its event, and a later event of the file
\* sink, which is no member of this FanOut, has been handled: sink 2 is
\* still a member and counted
C22_Witness ==
    /\ hpc = "recv"
    /\ moEvents = << >>
    /\ hev = FileSink
    /\ sinkChild[1] = "reported"
    /\ sinkChild[2] = "alive"
    /\ moMembers = << 2 >>
    /\ moWg = 1
    /\ ~moCrashed

\* C23: an AddExtMember whose factory yields no sink returns an error and
\* leaves the members, the counter, the header buffer and every sink's
\* stream as they were; one whose factory yields a sink returns nil, has
\* written the header buffer to the new sink and to no other, has appended
\* the sink behind the members there were, and has raised the counter by one.
C23_AddExtMemberFrame ==
    [][/\ (addRet' = "error" /\ addRet # "error") =>
              UNCHANGED << moMembers, moWg, moPcapHeader, sinkRecv >>
       /\ Len(moMembers') > Len(moMembers) =>
              LET s == moMembers'[Len(moMembers')]
              IN  /\ s \notin Range(moMembers)
                  /\ moMembers' = Append(moMembers, s)
                  /\ sinkRecv' = [sinkRecv EXCEPT ![s] = moPcapHeader]
                  /\ moWg' = moWg + 1
                  /\ moPcapHeader' = moPcapHeader
                  /\ addRet' = "nil"]_vars

\* a viewer sink was added behind the file sink once the header was
\* captured, and a later AddExtMember has failed
C23_Witness ==
    /\ addRet = "error"
    /\ moMembers = << FileSink, 1 >>
    /\ Len(moPcapHeader) = pcapHeaderSize
    /\ sinkRecv[1] = moPcapHeader
    /\ sinkChild[2] = "none"
    /\ moWg = 1

\* the members that were added through AddExtMember
ExtMembers == {i \in 1..Len(moMembers) : moMembers[i] \in ExtSinks}

-----------------------------------------------------------------------------
(* Properties of the Storage's counter and of the closing of the channels *)

\* C24: whenever c.mut is free the wait-group counter is the number of keys
\* of the map.
C24_WgIsMapSize ==
    stMut = "free" => stWg = Cardinality(Keys(stCapturers))

\* the lifecycle event of the name n is in the channel or with the handler
EventPending(n) ==
    \/ \E i \in 1..Len(stEvents) : stEvents[i].from = n
    \/ shpc = "proc" /\ shev.from = n

\* every started capturer is Terminal and the command thread is idle
AllTerminal ==
    /\ nStarted > 0
    /\ rpc = "idle"
    /\ \A c \in 1..nStarted : capState[c] = "Terminal"

\* C25: a capturer that is a value of the map and has reached Terminal has
\* its lifecycle event not handled yet, and once every started capturer is
\* Terminal, Empty() eventually returns true.
C25_NoTerminalCapturerStaysRegistered ==
    /\ [](\A n \in Keys(stCapturers) :
            (stCapturers[n] \in Capturers /\ capState[stCapturers[n]] = "Terminal")
                => EventPending(n))
    /\ AllTerminal ~> (Empty(stCapturers) /\ ~stCrashed)

\* C26: once an event channel is closed nobody is left who can send on it:
\* no viewer sink whose child is still alive, no capturer that is running
\* and no Stop on its way to emit.
C26_NoSenderLeftAtClose ==
    /\ moEventsClosed => \A s \in ExtSinks : sinkChild[s] # "alive"
    /\ stEventsClosed =>
          /\ rpc # "stopEmit"
          /\ \A c \in Capturers : ~(capState[c] = "Running" /\ wtpc[c] = "idle")

\* C27: the counter is the number of members that were added through
\* AddExtMember, and it is never negative.
C27_WgCountsExtMembers ==
    /\ moWg = Cardinality(ExtMembers)
    /\ moWg >= 0

\* two viewer sinks were added to the file sink and both have been removed
\* by the event loop
C27_Witness ==
    /\ moMembers = << FileSink >>
    /\ moWg = 0
    /\ \A s \in ExtSinks : sinkChild[s] = "reported"
    /\ moEvents = << >>
    /\ hpc = "recv"

====
